---- MODULE Spec2Model ----
(***************************************************************************)
(* Model of the test execution harness of BOJ Mate                         *)
(* (src/src/utils/compiler.ts): CodeRunner.compile, CodeRunner.execute,    *)
(* CodeRunner.runTests, normalizeOutput and detectLanguage, together with  *)
(* the events of the child processes they spawn (data, exit, close, error, *)
(* the timer), and of the command that calls the harness                   *)
(* (src/src/commands/runTests.ts, RunTestsCommand.execute).                *)
(*                                                                         *)
(* Strings are sequences of one-character strings.  JavaScript runs every  *)
(* synchronous stretch of code to completion, so each action below is one  *)
(* such stretch: a call up to its first await, the continuation after an   *)
(* await, or one event handler.                                            *)
(*                                                                         *)
(* Specifications:                                                         *)
(*   Spec, FairSpec  one call of runTests, for every language and suite    *)
(*   LimitSpec       the same call made by a caller with a time limit      *)
(*   NormSpec        normalizeOutput applied to a text and to its result   *)
(*   CmdSpec         two interleaved invocations of the run-tests command  *)
(*   PathSpec        findProblemIdFromPath applied to a path               *)
(*   CacheSpec       the operations of CacheManager (src/src/utils/cache)  *)
(*   BojSpec         interleaved calls of BojService.getProblem            *)
(*   TimerSpec       TimerService under calls from two entry points        *)
(*   DisplaySpec     the status-bar refresh interval of TimerService       *)
(* Each leaves the variables of the others at rest.                        *)
(*                                                                         *)
(* Not modelled: the text of the compile and run commands (a spawn either  *)
(* starts the process or fails), and wall-clock readings (executionTime;   *)
(* the deadline is a timer that may fire while the process is not closed). *)
(* compile and execute read LANGUAGE_CONFIG[language].compileCommand and   *)
(* .runCommand; the registry in src/src/types/index.ts names its recipes   *)
(* compileArgs and runArgs, so the presence of the two commands is taken   *)
(* from the specification of the registry (HasCompileCommand,              *)
(* HasRunCommand, Produced).                                               *)
(***************************************************************************)
EXTENDS Integers, Sequences, FiniteSets, TLC

\* ------------------------------------------------------------------ bounds
MaxCases == 2
MaxOut == 2
MaxErr == 1

\* ------------------------------------------------------------- text, as JS
\* exitCode: number | null
null == -1

Whitespace == {" ", "\n", "\t"}

\* a trimEnd that removes one trailing whitespace character only
trimEndOnce(s) ==
  IF s = <<>> THEN <<>>
  ELSE IF s[Len(s)] \in Whitespace THEN SubSeq(s, 1, Len(s) - 1)
  ELSE s

RECURSIVE trimEnd(_)
trimEnd(s) ==
  IF s = <<>> THEN <<>>
  ELSE IF s[Len(s)] \in Whitespace THEN trimEnd(SubSeq(s, 1, Len(s) - 1))
  ELSE s

RECURSIVE trimStart(_)
trimStart(s) ==
  IF s = <<>> THEN <<>>
  ELSE IF s[1] \in Whitespace THEN trimStart(Tail(s))
  ELSE s

trim(s) == trimStart(trimEnd(s))

\* s.split('\n'): the lines of s; always at least one line
RECURSIVE split(_)
split(s) ==
  IF s = <<>> THEN << <<>> >>
  ELSE IF s[1] = "\n" THEN << <<>> >> \o split(Tail(s))
  ELSE LET rest == split(Tail(s))
       IN  << <<s[1]>> \o rest[1] >> \o Tail(rest)

\* lines.join('\n')
RECURSIVE join(_)
join(lines) ==
  IF Len(lines) = 0 THEN <<>>
  ELSE IF Len(lines) = 1 THEN lines[1]
  ELSE lines[1] \o <<"\n">> \o join(Tail(lines))

normalizeOutput(output) ==
  LET lines == split(output)
  IN  trim(join([k \in 1..Len(lines) |-> trimEnd(lines[k])]))

\* ------------------------------------------------------- language registry
SupportedLanguage == {"cpp", "py", "java", "js", "rs"}

\* LANGUAGE_CONFIG: the recipes of each language, as the registry lists them.
\* An absent compile recipe is <<>>.
LANGUAGE_CONFIG_PythonCompiled ==
  [lang \in SupportedLanguage |->
     [compileArgs |-> <<"compiler", "{file}">>, runArgs |-> <<"{output}">>]]

LANGUAGE_CONFIG ==
  [lang \in SupportedLanguage |->
     CASE lang = "cpp" ->
            [compileArgs |-> <<"g++", "-std=c++17", "-O2", "-o", "{output}", "{file}">>,
             runArgs |-> <<"{output}">>]
       [] lang = "py" ->
            [compileArgs |-> <<>>, runArgs |-> <<"python3", "{file}">>]
       [] lang = "java" ->
            [compileArgs |-> <<"javac", "{file}">>,
             runArgs |-> <<"java", "-cp", "{dir}", "Main">>]
       [] lang = "js" ->
            [compileArgs |-> <<>>, runArgs |-> <<"node", "{file}">>]
       [] lang = "rs" ->
            [compileArgs |-> <<"rustc", "-O", "-o", "{output}", "{file}">>,
             runArgs |-> <<"{output}">>]]

\* LANGUAGE_CONFIG[language].compileCommand is present (the compiled languages)
HasCompileCommand(lang) == lang \in {"cpp", "java", "rs"}

\* LANGUAGE_CONFIG[language].runCommand is present (every language)
HasRunCommand(lang) == lang \in SupportedLanguage

\* the files a successful compile command leaves in the source directory:
\* "output" is the file at outputPath = join(dir, basename(file, extension))
Produced(lang) ==
  IF lang \in {"cpp", "rs"} THEN {"output"}
  ELSE IF lang = "java" THEN {"class"}
  ELSE {}

\* ------------------------------------------------------------------ inputs
Char == {"a", " ", "\n"}
ErrChar == {"e"}

\* TestCase {input, output}
TestCaseSet ==
  { [input |-> <<>>,    output |-> <<"a", "\n">>],
    [input |-> <<"a">>, output |-> <<"a", "a", " ", "\n">>] }

TestSuites == UNION { [1..n -> TestCaseSet] : n \in 0..MaxCases }

Languages == SupportedLanguage

\* --------------------------------------------------------- message strings
undefined == <<"undefined">>
TimeoutMsg == <<"time limit exceeded">>
CodeStr(code) == IF code = null THEN "null" ELSE IF code = 0 THEN "0" ELSE "1"
RuntimeMsg(code) == <<"runtime error (exit code: ", CodeStr(code), ")">>
LaunchMsg == <<"execution failed: spawn error">>
CompileExitMsg(code) == <<"compile failed (exit code: ", CodeStr(code), ")">>
CompilerLaunchMsg == <<"compiler launch failed: spawn error">>

ExitCodes == {0, 1, null}

\* ------------------------------------------------------------------- state
VARIABLES
  language,      \* runTests argument
  testCases,     \* runTests argument
  requested,     \* <<>>, or <<the time limit in ms the caller wants applied>>
  pc,            \* position of runTests: idle, compiling, executing, done
  i,             \* loop variable of runTests
  results,       \* TestResult[] being built / returned
  compileResult, \* <<>> while the compile promise is pending, else <<CompileResult>>
  cproc,         \* compiler process: none, spawnfail, running, closed
  cstderr,       \* stderr captured by compile
  ccode,         \* <<>>, or <<the exit code the compiler's 'close' reported>>
  disk,          \* files of the source directory left by the compiler
  unlink,        \* the unlinkSync of runTests: none (not called), ok, failed
  progress,      \* calls of onProgress so far, <<current, total>> each
  launched,      \* case indices for which execute spawned a process, in order
  proc,          \* test process: none, spawnfail, running, exited, closed
  procCode,      \* its exit code (null: ended by a signal)
  needsEOF,      \* the program waits for an end-of-file that stdin has not delivered
  children,      \* forked children still hold the process's output pipes
  stdinData,     \* what execute wrote to standard input
  stdinEnded,    \* execute called proc.stdin.end()
  timer,         \* deadline timer: none, armed, fired, cleared
  deadline,      \* <<>>, or <<the delay in ms the timer was armed with>>
  killed,        \* the timer's SIGKILL ended the process
  timeout,       \* closure variable of execute
  stdout,        \* closure variable of execute
  stderr,        \* closure variable of execute
  execResult,    \* <<>> while the execute promise is pending, else <<ExecutionResult>>
  outcomes,      \* the ExecutionResult runTests received for each case so far
  text,          \* normalization: the text given to normalizeOutput
  once,          \* normalization: normalizeOutput(text)
  twice,         \* normalization: normalizeOutput(once)
  npc,           \* normalization: start, once, twice
  cmds,          \* run-tests command: the state of each invocation
  attempts,      \* run-tests command: attempts of the current solve record
  artifacts      \* run-tests command: source files whose compiled file exists

VARIABLES
  fpath,         \* problem id: the path given to findProblemIdFromPath
  foundId,       \* problem id: <<>> for null, else <<the id returned>>
  fpc            \* problem id: start, done

VARIABLES
  memoryCache,   \* cache: CacheManager.memoryCache, <<>> or <<CacheEntry>> per key
  globalCache,   \* cache: the cache keys of context.globalState, likewise
  now,           \* cache: Date.now(), in ms
  lastGet,       \* cache: <<>>, or <<what the latest CacheManager.get was asked and gave>>
  lastWrite,     \* cache: per key, the latest set, delete or clear that covers it
  clearing,      \* cache: <<>>, or <<the prefix of the clear(prefix) in progress>>
  calls,         \* problems: the state of each caller's getProblem
  fetched        \* problems: per id, <<>> or <<the problem last fetched and when>>

VARIABLES
  currentRecord,    \* timer: TimerService.currentRecord, <<>> for null
  persistedCurrent, \* timer: globalState['bojmate.currentProblem'], <<>> for undefined
  solveRecords,     \* timer: globalState['bojmate.solveRecords']
  timerInterval,    \* timer: TimerService.timerInterval is not null
  live,             \* timer: number of intervals set and not cleared
  showTimer,        \* timer: the setting bojmate.showTimer
  clock,            \* timer: Date.now()
  tops,             \* timer: the operation each entry point has in progress
  nextSession,      \* timer: number the next new record gets
  unfinished,       \* timer: per problem, <<>> or <<its session started and not stopped>>
  disposed          \* timer: dispose() was called

runVars == <<language, testCases, requested, pc, i, results, progress, launched, outcomes>>
compileVars == <<compileResult, cproc, cstderr, ccode>>
procVars == <<proc, procCode, needsEOF, children, stdinData, stdinEnded, killed>>
execVars == <<timer, deadline, timeout, stdout, stderr, execResult>>
diskVars == <<disk, unlink>>
harnessVars == <<runVars, compileVars, diskVars, procVars, execVars>>
normVars == <<text, once, twice, npc>>
cmdVars == <<cmds, attempts, artifacts>>
pathVars == <<fpath, foundId, fpc>>
cacheVars == <<memoryCache, globalCache, now, lastGet, lastWrite, clearing>>
bojVars == <<calls, fetched>>
timerVars == <<currentRecord, persistedCurrent, solveRecords, timerInterval, live,
               showTimer, clock, tops, nextSession, unfinished, disposed>>
serviceVars == <<pathVars, cacheVars, bojVars, timerVars>>
vars == <<harnessVars, normVars, cmdVars, serviceVars>>

N == Len(testCases)

\* a deadline taken from the caller when the caller has one
timeoutMsOfCaller == IF requested # <<>> THEN requested[1] ELSE 5000

\* private readonly timeoutMs: number = 5000
timeoutMs == 5000

\* What the source directory holds before the run: for a language without a
\* compile command possibly a file at outputPath that is not the harness's
\* (with a compile command the compiler writes that file anyway).
Leftovers(lang) == IF HasCompileCommand(lang) THEN {{}} ELSE {{}, {"output"}}

\* the harness before runTests is called
HarnessInit ==
  /\ language \in Languages
  /\ testCases \in TestSuites
  /\ pc = "idle"
  /\ i = 0
  /\ results = <<>>
  /\ compileResult = <<>>
  /\ cproc = "none"
  /\ cstderr = <<>>
  /\ ccode = <<>>
  /\ disk \in Leftovers(language)
  /\ unlink = "none"
  /\ progress = <<>>
  /\ launched = <<>>
  /\ proc = "none"
  /\ procCode = null
  /\ needsEOF = FALSE
  /\ children = FALSE
  /\ stdinData = <<>>
  /\ stdinEnded = FALSE
  /\ timer = "none"
  /\ deadline = <<>>
  /\ killed = FALSE
  /\ timeout = FALSE
  /\ stdout = <<>>
  /\ stderr = <<>>
  /\ execResult = <<>>
  /\ outcomes = <<>>

\* normalizeOutput has not been applied
NormIdle ==
  /\ text = <<>>
  /\ once = <<>>
  /\ twice = <<>>
  /\ npc = "start"

\* the bojmate.runTests command has not been invoked
Invocations == {"first", "second"}

IdleCmd ==
  [pc |-> "idle", file |-> <<>>, lang |-> <<>>, n |-> 0, k |-> 0,
   incremented |-> FALSE, compiled |-> FALSE, launches |-> 0, shown |-> FALSE]

CmdIdle ==
  /\ cmds = [c \in Invocations |-> IdleCmd]
  /\ attempts = <<>>
  /\ artifacts = {}

\* the run-tests command, the only caller, passes no time limit
\* findProblemIdFromPath has not been called
PathIdle ==
  /\ fpath = <<>>
  /\ foundId = <<>>
  /\ fpc = "start"

\* CacheManager.problemKey, CacheManager.tierKey: `cache:problem:${id}`
problemKey(problemId) == <<"cache:", "problem:", problemId>>
tierKey(problemId) == <<"cache:", "tier:", problemId>>

ProblemIds == {"1", "2"}
Keys == {problemKey(id) : id \in ProblemIds} \cup {tierKey("1")}
Callers == {"a", "b"}

IdleCall ==
  [pc |-> "idle", id |-> "1", cached |-> <<>>, fresh |-> FALSE,
   expect |-> <<>>, requests |-> 0, result |-> <<>>]

\* a new session: nothing in memory, no call made, nothing ever fetched
CacheIdle ==
  /\ memoryCache = [k \in Keys |-> <<>>]
  /\ globalCache = [k \in Keys |-> <<>>]
  /\ now = 0
  /\ lastGet = <<>>
  /\ lastWrite = [k \in Keys |-> <<>>]
  /\ clearing = <<>>
  /\ calls = [c \in Callers |-> IdleCall]
  /\ fetched = [id \in ProblemIds |-> <<>>]

Problems == {"p", "q"}
EntryPoints == {"sidebar", "menu"}

IdleOp == [pc |-> "idle", arg |-> ""]

\* a TimerService over an empty globalState, with nothing in progress
TimerIdle ==
  /\ currentRecord = <<>>
  /\ persistedCurrent = <<>>
  /\ solveRecords = <<>>
  /\ timerInterval = FALSE
  /\ live = 0
  /\ showTimer = TRUE
  /\ clock = 0
  /\ tops = [e \in EntryPoints |-> IdleOp]
  /\ nextSession = 1
  /\ unfinished = [p \in Problems |-> <<>>]
  /\ disposed = FALSE

\* the services beside the harness are at rest
ServicesIdle == PathIdle /\ CacheIdle /\ TimerIdle

Init == HarnessInit /\ requested = <<>> /\ NormIdle /\ CmdIdle /\ ServicesIdle

\* ----------------------------------------------------------------- compile
\* a compile that starts a compiler for every language
RunAlwaysCompiles ==
  /\ pc = "idle"
  /\ pc' = "compiling"
  /\ compileResult' = <<>>
  /\ \E spawned \in BOOLEAN :
       cproc' = IF spawned THEN "running" ELSE "spawnfail"
  /\ UNCHANGED <<language, testCases, requested, i, results, progress, launched,
                 outcomes, cstderr, ccode, diskVars, procVars, execVars>>
  /\ UNCHANGED <<normVars, cmdVars, serviceVars>>

\* runTests is called: compile runs up to its promise
Run ==
  /\ pc = "idle"
  /\ pc' = "compiling"
  /\ IF ~HasCompileCommand(language)
     THEN /\ compileResult' = << [success |-> TRUE, error |-> undefined,
                                  outputPath |-> FALSE] >>
          /\ cproc' = "none"
     ELSE /\ compileResult' = <<>>
          /\ \E spawned \in BOOLEAN :
               cproc' = IF spawned THEN "running" ELSE "spawnfail"
  /\ UNCHANGED <<language, testCases, requested, i, results, progress, launched,
                 outcomes, cstderr, ccode, diskVars, procVars, execVars>>
  /\ UNCHANGED <<normVars, cmdVars, serviceVars>>

\* proc.stderr.on('data') of compile
CompileStderr ==
  /\ cproc = "running"
  /\ Len(cstderr) < MaxErr
  /\ \E c \in ErrChar : cstderr' = Append(cstderr, c)
  /\ UNCHANGED <<runVars, compileResult, cproc, ccode, diskVars, procVars, execVars>>
  /\ UNCHANGED <<normVars, cmdVars, serviceVars>>

\* a compile result decided by the presence of compiler output on stderr
CompileCloseResultByStderr(code, errText) ==
  IF errText = <<>>
  THEN [success |-> TRUE, error |-> undefined, outputPath |-> TRUE]
  ELSE [success |-> FALSE, error |-> errText, outputPath |-> FALSE]

\* the CompileResult the 'close' handler resolves with
CompileCloseResult(code, errText) ==
  IF code = 0
  THEN [success |-> TRUE, error |-> undefined, outputPath |-> TRUE]
  ELSE [success |-> FALSE,
        error |-> IF errText # <<>> THEN errText ELSE CompileExitMsg(code),
        outputPath |-> FALSE]

\* proc.on('close') of compile
CompileClose ==
  /\ cproc = "running"
  /\ cproc' = "closed"
  /\ \E code \in ExitCodes :
       /\ compileResult' = << CompileCloseResult(code, cstderr) >>
       /\ ccode' = <<code>>
       /\ disk' = IF code = 0 THEN disk \cup Produced(language) ELSE disk
  /\ UNCHANGED <<runVars, cstderr, unlink, procVars, execVars>>
  /\ UNCHANGED <<normVars, cmdVars, serviceVars>>

\* proc.on('error') of compile: the compiler could not be started
CompileError ==
  /\ cproc = "spawnfail"
  /\ cproc' = "closed"
  /\ compileResult' = << [success |-> FALSE, error |-> CompilerLaunchMsg,
                          outputPath |-> FALSE] >>
  /\ UNCHANGED <<runVars, cstderr, ccode, diskVars, procVars, execVars>>
  /\ UNCHANGED <<normVars, cmdVars, serviceVars>>

\* ----------------------------------------------------------------- execute
\* a progress callback that reports "case k + 1 of N"
ProgressCallZeroBased(k) == <<k, N>>

\* onProgress?.(i + 1, testCases.length); the callback is the one the
\* run-tests command passes, so it is always supplied
ProgressCall(k) == <<k + 1, N>>

\* the execute call whose promise was awaited is over: its process is closed
\* and its closure (timer, timeout, stdout, stderr) is no longer referenced
EndExecute ==
  /\ proc' = "none"
  /\ procCode' = null
  /\ needsEOF' = FALSE
  /\ children' = FALSE
  /\ stdinData' = <<>>
  /\ stdinEnded' = FALSE
  /\ killed' = FALSE
  /\ timer' = "none"
  /\ deadline' = <<>>
  /\ timeout' = FALSE
  /\ stdout' = <<>>
  /\ stderr' = <<>>
  /\ execResult' = <<>>

\* The synchronous part of one loop iteration of runTests for case k (0-based):
\* the onProgress call, then execute up to its promise: spawn, setTimeout,
\* the write to standard input, the registration of the handlers.
\* When the registry entry has no run command, `config.runCommand.replace`
\* throws before anything is spawned and the exception leaves runTests.
StartCase(k) ==
  /\ progress' = Append(progress, ProgressCall(k))
  /\ IF ~HasRunCommand(language)
     THEN /\ pc' = "rejected"
          /\ launched' = launched
          /\ EndExecute
     ELSE /\ pc' = "executing"
          /\ launched' = Append(launched, k)
          /\ \E spawned \in BOOLEAN : proc' = IF spawned THEN "running" ELSE "spawnfail"
          /\ \E eof \in (IF testCases[k + 1].input # <<>> THEN {FALSE} ELSE BOOLEAN) :
               needsEOF' = eof
          /\ procCode' = null
          /\ children' = FALSE
          /\ killed' = FALSE
          /\ timer' = "armed"
          /\ deadline' = <<timeoutMs>>
          /\ timeout' = FALSE
          /\ stdout' = <<>>
          /\ stderr' = <<>>
          /\ execResult' = <<>>
          /\ IF testCases[k + 1].input # <<>>
             THEN stdinData' = testCases[k + 1].input /\ stdinEnded' = TRUE
             ELSE stdinData' = <<>> /\ stdinEnded' = FALSE

\* proc.stdout.on('data')
StdoutData ==
  /\ proc \in {"running", "exited"}
  /\ Len(stdout) < MaxOut
  /\ \E c \in Char : stdout' = Append(stdout, c)
  /\ UNCHANGED <<runVars, compileVars, diskVars, procVars, timer, deadline,
                 timeout, stderr, execResult>>
  /\ UNCHANGED <<normVars, cmdVars, serviceVars>>

\* proc.stderr.on('data')
StderrData ==
  /\ proc \in {"running", "exited"}
  /\ Len(stderr) < MaxErr
  /\ \E c \in ErrChar : stderr' = Append(stderr, c)
  /\ UNCHANGED <<runVars, compileVars, diskVars, procVars, timer, deadline,
                 timeout, stdout, execResult>>
  /\ UNCHANGED <<normVars, cmdVars, serviceVars>>

\* the program forks a child that inherits its output pipes
ProcFork ==
  /\ proc = "running"
  /\ ~children
  /\ children' = TRUE
  /\ UNCHANGED <<runVars, compileVars, diskVars, proc, procCode, needsEOF,
                 stdinData, stdinEnded, killed, execVars>>
  /\ UNCHANGED <<normVars, cmdVars, serviceVars>>

\* the forked children end and release the pipes
ChildrenExit ==
  /\ children
  /\ children' = FALSE
  /\ UNCHANGED <<runVars, compileVars, diskVars, proc, procCode, needsEOF,
                 stdinData, stdinEnded, killed, execVars>>
  /\ UNCHANGED <<normVars, cmdVars, serviceVars>>

\* the program ends on its own: with an exit code, or by a signal (code null).
\* A program that reads to end-of-file cannot end before stdin is closed.
ProcExit ==
  /\ proc = "running"
  /\ ~needsEOF
  /\ proc' = "exited"
  /\ \E code \in ExitCodes : procCode' = code
  /\ UNCHANGED <<runVars, compileVars, diskVars, needsEOF, children, stdinData,
                 stdinEnded, killed, execVars>>
  /\ UNCHANGED <<normVars, cmdVars, serviceVars>>

\* the setTimeout callback: timeout = true; proc.kill('SIGKILL').
\* SIGKILL ends a running process (no exit code); it does nothing to a process
\* that has already ended, nor to its children.
TimerFire ==
  /\ timer = "armed"
  /\ proc \in {"running", "exited"}
  /\ timer' = "fired"
  /\ timeout' = TRUE
  /\ IF proc = "running"
     THEN proc' = "exited" /\ procCode' = null /\ killed' = TRUE
     ELSE UNCHANGED <<proc, procCode, killed>>
  /\ UNCHANGED <<runVars, compileVars, diskVars, needsEOF, children, stdinData,
                 stdinEnded, deadline, stdout, stderr, execResult>>
  /\ UNCHANGED <<normVars, cmdVars, serviceVars>>

\* proc.on('close'): emitted once the process has ended and its pipes are closed
ProcClose ==
  /\ proc = "exited"
  /\ ~children
  /\ proc' = "closed"
  /\ timer' = IF timer = "armed" THEN "cleared" ELSE timer
  /\ execResult' = << [stdout |-> trim(stdout), stderr |-> trim(stderr),
                       exitCode |-> procCode, timeout |-> timeout] >>
  /\ UNCHANGED <<runVars, compileVars, diskVars, procCode, needsEOF, children,
                 stdinData, stdinEnded, killed, deadline, timeout, stdout, stderr>>
  /\ UNCHANGED <<normVars, cmdVars, serviceVars>>

\* a launch failure reported with the timeout flag set
LaunchFailureAsTimeout ==
  [stdout |-> <<>>, stderr |-> LaunchMsg, exitCode |-> null, timeout |-> TRUE]

\* the ExecutionResult the 'error' handler resolves with
LaunchFailure ==
  [stdout |-> <<>>, stderr |-> LaunchMsg, exitCode |-> null, timeout |-> FALSE]

\* proc.on('error'): the process could not be started.  Node emits it on the
\* next tick, before any timer; the 'close' it emits afterwards finds the
\* promise resolved and the timer cleared, and changes nothing.
ProcError ==
  /\ proc = "spawnfail"
  /\ proc' = "closed"
  /\ timer' = "cleared"
  /\ execResult' = << LaunchFailure >>
  /\ UNCHANGED <<runVars, compileVars, diskVars, procCode, needsEOF, children,
                 stdinData, stdinEnded, killed, deadline, timeout, stdout, stderr>>
  /\ UNCHANGED <<normVars, cmdVars, serviceVars>>

\* ---------------------------------------------------------------- runTests
\* a verdict that forgets the exit code
PassedIgnoringExit(tc, r) ==
  /\ normalizeOutput(tc.output) = normalizeOutput(r.stdout)
  /\ ~r.timeout

Passed(tc, r) ==
  /\ normalizeOutput(tc.output) = normalizeOutput(r.stdout)
  /\ ~r.timeout
  /\ r.exitCode = 0

\* the description chosen with the exit code ahead of stderr
ErrorOfExitFirst(r) ==
  IF r.timeout THEN TimeoutMsg
  ELSE IF r.exitCode # 0 THEN RuntimeMsg(r.exitCode)
  ELSE IF r.stderr # <<>> THEN r.stderr
  ELSE undefined

ErrorOf(r) ==
  IF r.timeout THEN TimeoutMsg
  ELSE IF r.stderr # <<>> THEN r.stderr
  ELSE IF r.exitCode # 0 THEN RuntimeMsg(r.exitCode)
  ELSE undefined

\* a result numbered from one
CaseResultOneBased(k, r) ==
  [testCaseIndex |-> k + 1, input |-> testCases[k + 1].input,
   expected |-> testCases[k + 1].output, actual |-> r.stdout,
   passed |-> Passed(testCases[k + 1], r), error |-> ErrorOf(r)]

\* the TestResult pushed for case k with ExecutionResult r
CaseResult(k, r) ==
  [testCaseIndex |-> k, input |-> testCases[k + 1].input,
   expected |-> testCases[k + 1].output, actual |-> r.stdout,
   passed |-> Passed(testCases[k + 1], r), error |-> ErrorOf(r)]

\* a failure list that carries the diagnostic on its first element only
CompileFailedResultsFirstOnly(err) ==
  [k \in 1..N |->
     [testCaseIndex |-> k - 1, input |-> testCases[k].input,
      expected |-> testCases[k].output, actual |-> <<>>,
      passed |-> FALSE, error |-> IF k = 1 THEN err ELSE undefined]]

\* the list returned when compilation failed
CompileFailedResults(err) ==
  [k \in 1..N |->
     [testCaseIndex |-> k - 1, input |-> testCases[k].input,
      expected |-> testCases[k].output, actual |-> <<>>,
      passed |-> FALSE, error |-> err]]

\* a loop that runs the same case again
NextCaseRetry(k) == k

\* i++ of the for loop
NextCase(k) == k + 1

\* a loop that stops at the first case that did not exit with code 0
MoreCasesUntilFailure(k) == k < N /\ execResult[1].exitCode = 0

\* i < testCases.length, tested when an iteration has ended
MoreCases(k) == k < N

\* a cleanup whose unlinkSync is not inside a try block
CleanupThrowsUncaught(failed) == failed

\* try { fs.unlinkSync(outputPath) } catch { }: whether an exception of
\* unlinkSync leaves the block
CleanupThrows(failed) == FALSE

\* the end of runTests: removal of the file at outputPath when compile gave a
\* path and the file exists, then `return results`
Cleanup ==
  IF compileResult[1].outputPath /\ "output" \in disk
  THEN \E unlinked \in BOOLEAN :
         /\ disk' = IF unlinked THEN disk \ {"output"} ELSE disk
         /\ unlink' = IF unlinked THEN "ok" ELSE "failed"
         /\ pc' = IF CleanupThrows(~unlinked) THEN "rejected" ELSE "done"
  ELSE /\ UNCHANGED diskVars
       /\ pc' = "done"

\* the continuation of runTests after `await this.compile(...)`
AfterCompile ==
  /\ pc = "compiling"
  /\ compileResult # <<>>
  /\ IF ~compileResult[1].success
     THEN /\ results' = CompileFailedResults(compileResult[1].error)
          /\ pc' = "done"
          /\ UNCHANGED <<progress, launched, diskVars, procVars, execVars>>
     ELSE IF N = 0
     THEN /\ Cleanup
          /\ UNCHANGED <<results, progress, launched, procVars, execVars>>
     ELSE /\ StartCase(0)
          /\ UNCHANGED <<results, diskVars>>
  /\ UNCHANGED <<language, testCases, requested, i, outcomes, compileVars>>
  /\ UNCHANGED <<normVars, cmdVars, serviceVars>>

\* the continuation of runTests after `await this.execute(...)`: the result of
\* case i is pushed, then the next iteration starts or the loop ends
AfterExecute ==
  /\ pc = "executing"
  /\ execResult # <<>>
  /\ results' = Append(results, CaseResult(i, execResult[1]))
  /\ outcomes' = Append(outcomes, execResult[1])
  /\ i' = NextCase(i)
  /\ IF MoreCases(NextCase(i))
     THEN /\ StartCase(NextCase(i))
          /\ UNCHANGED diskVars
     ELSE /\ EndExecute
          /\ Cleanup
          /\ UNCHANGED <<progress, launched>>
  /\ UNCHANGED <<language, testCases, requested, compileVars>>
  /\ UNCHANGED <<normVars, cmdVars, serviceVars>>

Next ==
  \/ Run
  \/ CompileStderr
  \/ CompileClose
  \/ CompileError
  \/ AfterCompile
  \/ StdoutData
  \/ StderrData
  \/ ProcFork
  \/ ChildrenExit
  \/ ProcExit
  \/ TimerFire
  \/ ProcClose
  \/ ProcError
  \/ AfterExecute

Spec == Init /\ [][Next]_vars

\* Node's event loop runs every pending callback: an armed timer fires, a
\* 'close' or 'error' that is due is emitted, a continuation whose promise is
\* settled runs.  What the compiler, the program under test and its children
\* do on their own (output, exit, fork) has no such guarantee.
Fairness ==
  /\ WF_vars(Run)
  /\ WF_vars(CompileError)
  /\ WF_vars(AfterCompile)
  /\ WF_vars(TimerFire)
  /\ WF_vars(ProcClose)
  /\ WF_vars(ProcError)
  /\ WF_vars(AfterExecute)

FairSpec == Init /\ [][Next]_vars /\ Fairness

\* ------------------------------------------------- a caller with a time limit
\* The harness called by a caller that has a time limit for the run in mind
\* (the problem's limit), or none.
Limits == {<<>>, <<2000>>}

LimitInit ==
  /\ HarnessInit
  /\ language = "cpp"
  /\ Len(testCases) = MaxCases
  /\ \A k \in 1..Len(testCases) : testCases[k].input = <<>>
  /\ requested \in Limits
  /\ NormIdle
  /\ CmdIdle
  /\ ServicesIdle

LimitSpec == LimitInit /\ [][Next]_vars

\* ----------------------------------------------------- output normalization
\* normalizeOutput applied to a text, and again to its own result
MaxText == 4

\* the input of the repository's own test: "  hello  \n  world  \n"
TestInput ==
  <<" ", " ", "h", "e", "l", "l", "o", " ", " ", "\n",
    " ", " ", "w", "o", "r", "l", "d", " ", " ", "\n">>

\* the result that test expects: "  hello\n  world"
TestExpected ==
  <<" ", " ", "h", "e", "l", "l", "o", "\n", " ", " ", "w", "o", "r", "l", "d">>

Texts(n) == UNION { [1..m -> Char] : m \in 0..n }

NormInputs == Texts(MaxText) \cup {TestInput}

\* the harness with nothing to run
HarnessIdle ==
  /\ HarnessInit
  /\ requested = <<>>
  /\ language = "py"
  /\ testCases = <<>>
  /\ disk = {}

NormInit ==
  /\ HarnessIdle
  /\ CmdIdle
  /\ ServicesIdle
  /\ text \in NormInputs
  /\ once = <<>>
  /\ twice = <<>>
  /\ npc = "start"

NormalizeOnce ==
  /\ npc = "start"
  /\ once' = normalizeOutput(text)
  /\ npc' = "once"
  /\ UNCHANGED <<text, twice, harnessVars, cmdVars, serviceVars>>

NormalizeTwice ==
  /\ npc = "once"
  /\ twice' = normalizeOutput(once)
  /\ npc' = "twice"
  /\ UNCHANGED <<text, once, harnessVars, cmdVars, serviceVars>>

NormNext ==
  \/ NormalizeOnce
  \/ NormalizeTwice

NormSpec == NormInit /\ [][NormNext]_vars

\* ------------------------------------------------------- language detection
UpperCase ==
  <<"A", "B", "C", "D", "E", "F", "G", "H", "I", "J", "K", "L", "M",
    "N", "O", "P", "Q", "R", "S", "T", "U", "V", "W", "X", "Y", "Z">>

LowerCase ==
  <<"a", "b", "c", "d", "e", "f", "g", "h", "i", "j", "k", "l", "m",
    "n", "o", "p", "q", "r", "s", "t", "u", "v", "w", "x", "y", "z">>

\* String.prototype.toLowerCase
toLowerCase(s) ==
  [j \in 1..Len(s) |->
     IF \E u \in DOMAIN UpperCase : UpperCase[u] = s[j]
     THEN LowerCase[CHOOSE u \in DOMAIN UpperCase : UpperCase[u] = s[j]]
     ELSE s[j]]

\* s.lastIndexOf(c), counted from 1; 0 when c does not occur
RECURSIVE LastIndexOf(_, _)
LastIndexOf(s, c) ==
  IF s = <<>> THEN 0
  ELSE IF s[Len(s)] = c THEN Len(s)
  ELSE LastIndexOf(SubSeq(s, 1, Len(s) - 1), c)

\* path.extname: from the last '.' of the last path segment to the end; empty
\* when there is none, when it is the first character of the segment, or when
\* the segment is '..'
extname(p) ==
  LET base == SubSeq(p, LastIndexOf(p, "/") + 1, Len(p))
      dot == LastIndexOf(base, ".")
  IN  IF dot <= 1 \/ base = <<".", ".">> THEN <<>>
      ELSE SubSeq(base, dot, Len(base))

\* LANGUAGE_CONFIG[lang].extension
Extension(lang) ==
  CASE lang = "cpp" -> <<".", "c", "p", "p">>
    [] lang = "py" -> <<".", "p", "y">>
    [] lang = "java" -> <<".", "j", "a", "v", "a">>
    [] lang = "js" -> <<".", "j", "s">>
    [] lang = "rs" -> <<".", "r", "s">>

\* Object.entries(LANGUAGE_CONFIG): the entries in insertion order
RegistryOrder == <<"cpp", "py", "java", "js", "rs">>

\* the for loop of detectLanguage from entry k on: <<lang>> for the first entry
\* whose extension is ext, <<>> (undefined) when there is none
RECURSIVE FirstEntry(_, _)
FirstEntry(ext, k) ==
  IF k > Len(RegistryOrder) THEN <<>>
  ELSE IF Extension(RegistryOrder[k]) = ext THEN <<RegistryOrder[k]>>
  ELSE FirstEntry(ext, k + 1)

\* a lookup that compares the extension as it is written
detectLanguageCaseSensitive(filePath) == FirstEntry(extname(filePath), 1)

detectLanguage(filePath) == FirstEntry(toLowerCase(extname(filePath)), 1)

\* -------------------------------------------------------- run-tests command
\* RunTestsCommand.execute, invoked by the bojmate.runTests handler, which does
\* not await it: invocations interleave at their awaits.  Of CodeRunner.runTests
\* only what two invocations share is kept: the compiled file of a source
\* file, written by the compiler and removed at the end of a run.

\* the paths the command is invoked with
Files ==
  { <<"a", ".", "c", "p", "p">>,
    <<"M", ".", "j", "a", "v", "a">>,
    <<"a", ".", "P", "Y">>,
    <<"a", ".", "t", "x", "t">>,
    <<".", "p", "y">>,
    <<"d", ".", "p", "y", "/", "a">> }

\* no filePath argument and no active editor
NoFile == <<>>

CmdInit ==
  /\ HarnessIdle
  /\ NormIdle
  /\ ServicesIdle
  /\ cmds = [c \in Invocations |-> IdleCmd]
  /\ attempts \in {<<>>, <<0>>}
  /\ artifacts = {}

\* an incrementAttempt that counts also when no problem is being timed
incrementAttemptAlways == IF attempts = <<>> THEN <<1>> ELSE <<attempts[1] + 1>>

\* TimerService.incrementAttempt up to its await: attempts++ of the current
\* record, nothing when no problem is being timed
incrementAttempt == IF attempts = <<>> THEN <<>> ELSE <<attempts[1] + 1>>

\* execute from its start to its first await: the editor and language checks,
\* loadTestCases, then document.save() for a dirty document or incrementAttempt
Invoke(c) ==
  /\ cmds[c].pc = "idle"
  /\ \E f \in Files \cup {NoFile}, n \in 0..MaxCases, dirty \in BOOLEAN :
       LET lang == IF f = NoFile THEN <<>> ELSE detectLanguage(f)
           found == IF lang = <<>> THEN 0 ELSE n
       IN  IF lang = <<>> \/ n = 0
           THEN /\ cmds' = [cmds EXCEPT ![c] =
                              [@ EXCEPT !.pc = "stopped", !.file = f,
                                        !.lang = lang, !.n = found]]
                /\ UNCHANGED attempts
           ELSE IF dirty
           THEN /\ cmds' = [cmds EXCEPT ![c] =
                              [@ EXCEPT !.pc = "saving", !.file = f,
                                        !.lang = lang, !.n = n]]
                /\ UNCHANGED attempts
           ELSE /\ cmds' = [cmds EXCEPT ![c] =
                              [@ EXCEPT !.pc = "incremented", !.file = f,
                                        !.lang = lang, !.n = n,
                                        !.incremented = TRUE]]
                /\ attempts' = incrementAttempt
  /\ UNCHANGED <<artifacts, harnessVars, normVars, serviceVars>>

\* the continuation after `await document.save()`
Saved(c) ==
  /\ cmds[c].pc = "saving"
  /\ cmds' = [cmds EXCEPT ![c] = [@ EXCEPT !.pc = "incremented",
                                            !.incremented = TRUE]]
  /\ attempts' = incrementAttempt
  /\ UNCHANGED <<artifacts, harnessVars, normVars, serviceVars>>

\* the continuation after `await incrementAttempt()`: withProgress calls
\* runTests, which starts the compiler, or the first case when the language
\* has no compile command
BeginRun(c) ==
  /\ cmds[c].pc = "incremented"
  /\ cmds' = [cmds EXCEPT ![c] =
                IF HasCompileCommand(cmds[c].lang[1])
                THEN [@ EXCEPT !.pc = "compiling", !.compiled = TRUE]
                ELSE [@ EXCEPT !.pc = "running", !.launches = 1]]
  /\ UNCHANGED <<attempts, artifacts, harnessVars, normVars, serviceVars>>

\* the compiler of invocation c has ended: on success its output is on disk,
\* written over whatever was there, and the first case is launched; on failure
\* the results are shown
CompileDone(c) ==
  /\ cmds[c].pc = "compiling"
  /\ \E ok \in BOOLEAN :
       IF ok
       THEN /\ artifacts' = artifacts \cup {cmds[c].file}
            /\ cmds' = [cmds EXCEPT ![c] = [@ EXCEPT !.pc = "running",
                                                      !.launches = 1]]
       ELSE /\ artifacts' = artifacts
            /\ cmds' = [cmds EXCEPT ![c] = [@ EXCEPT !.pc = "finished",
                                                      !.shown = TRUE]]
  /\ UNCHANGED <<attempts, harnessVars, normVars, serviceVars>>

\* a case of invocation c has ended: the next case is launched, or after the
\* last case the file at outputPath is removed when it exists and the results
\* are shown
CaseDone(c) ==
  /\ cmds[c].pc = "running"
  /\ IF cmds[c].k + 1 < cmds[c].n
     THEN /\ cmds' = [cmds EXCEPT ![c] =
                        [@ EXCEPT !.k = @ + 1, !.launches = @ + 1]]
          /\ artifacts' = artifacts
     ELSE /\ cmds' = [cmds EXCEPT ![c] =
                        [@ EXCEPT !.k = @ + 1, !.pc = "finished", !.shown = TRUE]]
          /\ IF Produced(cmds[c].lang[1]) = {"output"} /\ cmds[c].file \in artifacts
             THEN \E unlinked \in BOOLEAN :
                    artifacts' = IF unlinked THEN artifacts \ {cmds[c].file}
                                 ELSE artifacts
             ELSE artifacts' = artifacts
  /\ UNCHANGED <<attempts, harnessVars, normVars, serviceVars>>

CmdNext ==
  \/ \E c \in Invocations : Invoke(c)
  \/ \E c \in Invocations : Saved(c)
  \/ \E c \in Invocations : BeginRun(c)
  \/ \E c \in Invocations : CompileDone(c)
  \/ \E c \in Invocations : CaseDone(c)

CmdSpec == CmdInit /\ [][CmdNext]_vars

\* ------------------------------------------------------------------ claims
\* ------------------------------------------------------- problem id of a path
\* TemplateService.findProblemIdFromPath, as the commands under src/src call
\* it (problem folders named by the problem number).  Paths are POSIX paths.
MaxPath == 5

Digit == {"0", "1", "2", "3", "4", "5", "6", "7", "8", "9"}

PathChar == {"/", "1", "a", "."}

\* the paths of test/extension.test.ts
PathInFolder == <<"/", "p", "/", "1", "0", "0", "0", "/", "m", ".", "p", "y">>
PathOfFile == <<"/", "p", "/", "1", "0", "0", "0", ".", "p", "y">>
PathWithoutId == <<"/", "p", "/", "t", "/", "m", ".", "p", "y">>

Paths ==
  UNION { [1..n -> PathChar] : n \in 0..MaxPath }
    \cup {PathInFolder, PathOfFile, PathWithoutId}

\* path.dirname: the scan from the end for the slash that ends the directory;
\* the result is the 0-based index of that slash, or -1
RECURSIVE DirEnd(_, _, _)
DirEnd(p, j, matchedSlash) ==
  IF j < 2 THEN -1
  ELSE IF p[j] = "/"
       THEN IF ~matchedSlash THEN j - 1 ELSE DirEnd(p, j - 1, matchedSlash)
       ELSE DirEnd(p, j - 1, FALSE)

dirname(p) ==
  IF p = <<>> THEN <<".">>
  ELSE LET end == DirEnd(p, Len(p), TRUE)
           hasRoot == p[1] = "/"
       IN  IF end = -1 THEN (IF hasRoot THEN <<"/">> ELSE <<".">>)
           ELSE IF hasRoot /\ end = 1 THEN <<"/", "/">>
           ELSE SubSeq(p, 1, end)

\* path.basename without a suffix: <<start, end>> of the last component
RECURSIVE BaseScan(_, _, _, _)
BaseScan(p, j, end, matchedSlash) ==
  IF j < 1 THEN <<0, end>>
  ELSE IF p[j] = "/"
       THEN IF ~matchedSlash THEN <<j, end>>
            ELSE BaseScan(p, j - 1, end, matchedSlash)
       ELSE IF end = -1 THEN BaseScan(p, j - 1, j, FALSE)
            ELSE BaseScan(p, j - 1, end, matchedSlash)

basename(p) ==
  LET r == BaseScan(p, Len(p), -1, TRUE)
  IN  IF r[2] = -1 THEN <<>> ELSE SubSeq(p, r[1] + 1, r[2])

\* /^\d+$/.test(s)
AllDigits(s) == s # <<>> /\ \A k \in 1..Len(s) : s[k] \in Digit

\* the length of the run of digits s starts with
RECURSIVE LeadingDigits(_)
LeadingDigits(s) ==
  IF s = <<>> \/ Head(s) \notin Digit THEN 0 ELSE 1 + LeadingDigits(Tail(s))

\* the version of the function that looks at the file name only:
\* fileName.match(/^(\d+)/)
findProblemIdFromFileName(filePath) ==
  LET fileName == basename(filePath)
      n == LeadingDigits(fileName)
  IN  IF n > 0 THEN <<SubSeq(fileName, 1, n)>> ELSE <<>>

\* <<>> is null
findProblemIdFromPath(filePath) ==
  LET dirName == basename(dirname(filePath))
      fileName == basename(filePath)
      n == LeadingDigits(fileName)
  IN  IF AllDigits(dirName) THEN <<dirName>>
      ELSE IF n > 0 /\ n < Len(fileName) /\ fileName[n + 1] = "."
           THEN <<SubSeq(fileName, 1, n)>>
           ELSE <<>>

PathInit ==
  /\ fpath \in Paths
  /\ foundId = <<>>
  /\ fpc = "start"
  /\ HarnessIdle
  /\ NormIdle
  /\ CmdIdle
  /\ CacheIdle
  /\ TimerIdle

FindProblemId ==
  /\ fpc = "start"
  /\ fpc' = "done"
  /\ foundId' = findProblemIdFromPath(fpath)
  /\ UNCHANGED <<fpath, harnessVars, normVars, cmdVars, cacheVars, bojVars, timerVars>>

PathNext == FindProblemId

PathSpec == PathInit /\ [][PathNext]_vars

\* ------------------------------------------------------------ CacheManager
\* src/src/utils/cache.ts.  context.globalState.update changes the value a
\* later globalState.get sees before it returns its promise, so every
\* operation acts in one step, except that clear(prefix) awaits inside its
\* loop and so deletes one key per step.  A key is a sequence of its parts.
MaxTicks == 2

\* private readonly defaultTTL = 30 * 60 * 1000
defaultTTL == 1800000

Values == {"v1", "v2"}
TTLs == {defaultTTL, 2 * defaultTTL}

\* the keys the cache operations are called with
CacheKeys == {problemKey("1"), tierKey("1")}

\* the prefixes given to clear; <<>> is no prefix (or the empty string)
Prefixes == {<<>>, <<"cache:">>, <<"cache:", "problem:">>}

\* key.startsWith(prefix)
startsWith(key, prefix) ==
  Len(prefix) <= Len(key) /\ SubSeq(key, 1, Len(prefix)) = prefix

\* an expiry test that lets an entry live forever
isExpiredNever(entry) == FALSE

\* isExpired: Date.now() - entry.timestamp > entry.ttl
isExpired(entry) == now - entry.timestamp > entry.ttl

\* `entry && !this.isExpired(entry)`
Live(slot) == slot # <<>> /\ ~isExpired(slot[1])

\* what get(key) returns: <<>> for undefined, else <<data>>
GetValue(key) ==
  IF Live(memoryCache[key]) THEN <<memoryCache[key][1].data>>
  ELSE IF Live(globalCache[key]) THEN <<globalCache[key][1].data>>
  ELSE <<>>

\* get(key) copies a live stored entry into memory
MemoryAfterGet(key) ==
  IF ~Live(memoryCache[key]) /\ Live(globalCache[key])
  THEN [memoryCache EXCEPT ![key] = globalCache[key]]
  ELSE memoryCache

NewEntry(data, ttl) == << [data |-> data, timestamp |-> now, ttl |-> ttl] >>

Wrote(op, data, ttl) == << [op |-> op, data |-> data, ttl |-> ttl, at |-> now] >>

\* the body of get(key)
GetBody(key) ==
  /\ lastGet' = << [key |-> key, value |-> GetValue(key), at |-> now] >>
  /\ memoryCache' = MemoryAfterGet(key)
  /\ UNCHANGED <<globalCache, now, lastWrite, clearing>>

Get(key) ==
  /\ GetBody(key)
  /\ UNCHANGED <<harnessVars, normVars, cmdVars, pathVars, bojVars, timerVars>>

\* the body of set(key, data, ttl)
SetBody(key, data, ttl) ==
  /\ memoryCache' = [memoryCache EXCEPT ![key] = NewEntry(data, ttl)]
  /\ globalCache' = [globalCache EXCEPT ![key] = NewEntry(data, ttl)]
  /\ lastWrite' = [lastWrite EXCEPT ![key] = Wrote("set", data, ttl)]
  /\ lastGet' = <<>>
  /\ UNCHANGED <<now, clearing>>

Set(key, data, ttl) ==
  /\ SetBody(key, data, ttl)
  /\ UNCHANGED <<harnessVars, normVars, cmdVars, pathVars, bojVars, timerVars>>

Delete(key) ==
  /\ memoryCache' = [memoryCache EXCEPT ![key] = <<>>]
  /\ globalCache' = [globalCache EXCEPT ![key] = <<>>]
  /\ lastWrite' = [lastWrite EXCEPT ![key] = Wrote("delete", "", 0)]
  /\ lastGet' = <<>>
  /\ UNCHANGED <<now, clearing>>
  /\ UNCHANGED <<harnessVars, normVars, cmdVars, pathVars, bojVars, timerVars>>

\* clear(prefix) from the loop head on: delete the next key of memory that
\* starts with the prefix and await, or leave the loop when there is none
ClearLoop(prefix) ==
  LET hit == {k \in Keys : memoryCache[k] # <<>> /\ startsWith(k, prefix)}
  IN  IF hit # {}
      THEN \E k \in hit :
             /\ memoryCache' = [memoryCache EXCEPT ![k] = <<>>]
             /\ globalCache' = [globalCache EXCEPT ![k] = <<>>]
             /\ lastWrite' = [lastWrite EXCEPT ![k] = Wrote("clearing", "", 0)]
             /\ clearing' = <<prefix>>
      ELSE /\ lastWrite' = [k \in Keys |->
                              IF startsWith(k, prefix)
                              THEN Wrote("clear", "", 0) ELSE lastWrite[k]]
           /\ clearing' = <<>>
           /\ UNCHANGED <<memoryCache, globalCache>>

Clear(prefix) ==
  /\ clearing = <<>>
  /\ IF prefix # <<>>
     THEN ClearLoop(prefix)
     ELSE /\ memoryCache' = [k \in Keys |-> <<>>]
          /\ lastWrite' = [k \in Keys |-> Wrote("clear", "", 0)]
          /\ UNCHANGED <<globalCache, clearing>>
  /\ lastGet' = <<>>
  /\ now' = now
  /\ UNCHANGED <<harnessVars, normVars, cmdVars, pathVars, bojVars, timerVars>>

ClearResume ==
  /\ clearing # <<>>
  /\ ClearLoop(clearing[1])
  /\ lastGet' = <<>>
  /\ now' = now
  /\ UNCHANGED <<harnessVars, normVars, cmdVars, pathVars, bojVars, timerVars>>

\* time passes
Tick(d, max) ==
  /\ now + d <= max * d
  /\ now' = now + d
  /\ UNCHANGED <<memoryCache, globalCache, lastGet, lastWrite, clearing>>
  /\ UNCHANGED <<harnessVars, normVars, cmdVars, pathVars, bojVars, timerVars>>

\* the extension is activated anew: `new CacheManager(context)` starts with
\* an empty memoryCache over the globalState the last session left, and what
\* was in progress is gone
Restart ==
  /\ memoryCache' = [k \in Keys |-> <<>>]
  /\ clearing' = <<>>
  /\ calls' = [c \in Callers |-> IdleCall]
  /\ UNCHANGED <<globalCache, now, lastGet, lastWrite, fetched>>
  /\ UNCHANGED <<harnessVars, normVars, cmdVars, pathVars, timerVars>>

CacheInit == HarnessIdle /\ NormIdle /\ CmdIdle /\ PathIdle /\ CacheIdle /\ TimerIdle

CacheNext ==
  \/ \E key \in CacheKeys : Get(key)
  \/ \E key \in CacheKeys, data \in Values, ttl \in TTLs : Set(key, data, ttl)
  \/ \E key \in CacheKeys : Delete(key)
  \/ \E prefix \in Prefixes : Clear(prefix)
  \/ ClearResume
  \/ Tick(defaultTTL, MaxTicks)
  \/ Restart

CacheSpec == CacheInit /\ [][CacheNext]_vars

\* ------------------------------------------------------ BojService.getProblem
\* src/src/services/BojService.ts.  A caller's getProblem runs up to
\* `await this.cache.get`, then up to `await this.client.get` (or returns the
\* cached problem), then stores and returns what was fetched, or throws.
MaxHalfDays == 3

\* "캐싱(24시간)": the period the README gives, in ms
CachingPeriod == 86400000

\* the ttl of the version of getProblem that caches for one hour
ProblemTTLOfOneHour == 3600000

\* this.cache.set(cacheKey, problem, 24 * 60 * 60 * 1000)
ProblemTTL == 86400000

HalfDay == CachingPeriod \div 2

\* getProblem(id) is called
GetProblem(c, id) ==
  /\ calls[c].pc \in {"idle", "returned", "failed"}
  /\ calls' = [calls EXCEPT ![c] =
       [pc |-> "got", id |-> id,
        cached |-> GetValue(problemKey(id)),
        fresh |-> fetched[id] # <<>> /\ now - fetched[id][1].at < CachingPeriod,
        expect |-> IF fetched[id] # <<>> THEN <<fetched[id][1].data>> ELSE <<>>,
        requests |-> 0, result |-> <<>>]]
  /\ GetBody(problemKey(id))
  /\ UNCHANGED fetched
  /\ UNCHANGED <<harnessVars, normVars, cmdVars, pathVars, timerVars>>

\* after the await of cache.get: return what was cached, or ask the site
Resume(c) ==
  /\ calls[c].pc = "got"
  /\ calls' = [calls EXCEPT ![c] =
       IF calls[c].cached # <<>>
       THEN [@ EXCEPT !.pc = "returned", !.result = calls[c].cached]
       ELSE [@ EXCEPT !.pc = "fetching", !.requests = @ + 1]]
  /\ UNCHANGED fetched
  /\ UNCHANGED <<harnessVars, normVars, cmdVars, pathVars, cacheVars, timerVars>>

\* the page arrived and was parsed: store it and return it
FetchOk(c, problem) ==
  /\ calls[c].pc = "fetching"
  /\ SetBody(problemKey(calls[c].id), problem, ProblemTTL)
  /\ fetched' = [fetched EXCEPT ![calls[c].id] = << [data |-> problem, at |-> now] >>]
  /\ calls' = [calls EXCEPT ![c].pc = "returned", ![c].result = <<problem>>]
  /\ UNCHANGED <<harnessVars, normVars, cmdVars, pathVars, timerVars>>

\* the request failed, or the page could not be parsed: getProblem throws
FetchFail(c) ==
  /\ calls[c].pc = "fetching"
  /\ calls' = [calls EXCEPT ![c].pc = "failed"]
  /\ UNCHANGED fetched
  /\ UNCHANGED <<harnessVars, normVars, cmdVars, pathVars, cacheVars, timerVars>>

BojInit == HarnessIdle /\ NormIdle /\ CmdIdle /\ PathIdle /\ CacheIdle /\ TimerIdle

BojNext ==
  \/ \E c \in Callers, id \in ProblemIds : GetProblem(c, id)
  \/ \E c \in Callers : Resume(c)
  \/ \E c \in Callers, problem \in Values : FetchOk(c, problem)
  \/ \E c \in Callers : FetchFail(c)
  \/ Tick(HalfDay, MaxHalfDays)
  \/ Restart

BojSpec == BojInit /\ [][BojNext]_vars

\* ------------------------------------------------------------ TimerService
\* src/src/services/TimerService.ts.  An operation is split where it awaits
\* globalState.update, whose promise resolves in a later turn of the event
\* loop (the value a later globalState.get returns changes at once, and is a
\* copy of what was given); `await this.pauseTimer()` and
\* `await this.getAllRecords()` resolve without any such turn, so no call
\* from an entry point comes between.  A record keeps problemId, startTime,
\* endTime, attempts and status; `session` numbers the records created.
MaxSessions == 3
MaxClock == 1
MaxAttempts == 1
MaxLive == 2
MaxRecords == 2

Statuses == {"solved", "failed"}

\* no operation of the entry point is in progress
Returned(e) == tops[e].pc = "idle"

Quiescent == \A e \in EntryPoints : Returned(e)

Solving(slot) == slot # <<>> /\ slot[1].status = "solving"

\* startTimerDisplay: setInterval, unless the setting showTimer is off
startTimerDisplay ==
  /\ showTimer => live < MaxLive
  /\ timerInterval' = (showTimer \/ timerInterval)
  /\ live' = IF showTimer THEN live + 1 ELSE live

\* if (this.timerInterval) { clearInterval(this.timerInterval); ... = null }
clearTimerInterval ==
  /\ timerInterval' = FALSE
  /\ live' = IF timerInterval THEN live - 1 ELSE live

\* records.find(r => r.problemId === problemId && r.status === 'solving')
Existing(p) ==
  {k \in DOMAIN solveRecords :
     solveRecords[k].problemId = p /\ solveRecords[k].status = "solving"}

Min(S) == CHOOSE k \in S : \A m \in S : k <= m

NewRecord(p) ==
  [problemId |-> p, startTime |-> clock, endTime |-> <<>>, attempts |-> 0,
   status |-> "solving", session |-> nextSession]

\* startTimer(p) up to `await globalState.update(CURRENT_PROBLEM_KEY, ...)`
StartTimer(e, p) ==
  /\ ~disposed
  /\ Returned(e)
  /\ IF Solving(currentRecord) /\ currentRecord[1].problemId = p
     THEN UNCHANGED <<currentRecord, persistedCurrent, timerInterval, live,
                      nextSession, unfinished, tops>>
     ELSE LET rec == IF Existing(p) # {} THEN solveRecords[Min(Existing(p))]
                     ELSE NewRecord(p)
          IN  /\ Existing(p) = {} => nextSession <= MaxSessions
              /\ IF Solving(currentRecord) THEN clearTimerInterval
                 ELSE UNCHANGED <<timerInterval, live>>
              /\ currentRecord' = <<rec>>
              /\ persistedCurrent' = <<rec>>
              /\ nextSession' = IF Existing(p) = {} THEN nextSession + 1 ELSE nextSession
              /\ unfinished' =
                   IF Existing(p) = {} /\ unfinished[p] = <<>>
                   THEN [unfinished EXCEPT ![p] = <<rec.session>>]
                   ELSE unfinished
              /\ tops' = [tops EXCEPT ![e] = [pc |-> "await-current", arg |-> ""]]
  /\ UNCHANGED <<solveRecords, showTimer, clock, disposed>>
  /\ UNCHANGED <<harnessVars, normVars, cmdVars, pathVars, cacheVars, bojVars>>

\* startTimer after the await: startTimerDisplay
StartTimerResume(e) ==
  /\ tops[e].pc = "await-current"
  /\ startTimerDisplay
  /\ tops' = [tops EXCEPT ![e] = IdleOp]
  /\ UNCHANGED <<currentRecord, persistedCurrent, solveRecords, showTimer, clock,
                 nextSession, unfinished, disposed>>
  /\ UNCHANGED <<harnessVars, normVars, cmdVars, pathVars, cacheVars, bojVars>>

\* saveRecord: drop the 'solving' records of the problem, push the record
saveRecord(record) ==
  Append(SelectSeq(solveRecords,
                   LAMBDA r : ~(r.problemId = record.problemId /\ r.status = "solving")),
         record)

\* stopTimer(status) up to the await inside saveRecord
StopTimer(e, status) ==
  /\ ~disposed
  /\ Returned(e)
  /\ IF currentRecord = <<>>
     THEN UNCHANGED <<currentRecord, solveRecords, timerInterval, live, unfinished, tops>>
     ELSE LET rec == [currentRecord[1] EXCEPT !.endTime = <<clock>>, !.status = status]
          IN  /\ Len(solveRecords) < MaxRecords
              /\ clearTimerInterval
              /\ currentRecord' = <<rec>>
              /\ solveRecords' = saveRecord(rec)
              /\ unfinished' = [unfinished EXCEPT ![rec.problemId] = <<>>]
              /\ tops' = [tops EXCEPT ![e] = [pc |-> "await-records", arg |-> status]]
  /\ UNCHANGED <<persistedCurrent, showTimer, clock, nextSession, disposed>>
  /\ UNCHANGED <<harnessVars, normVars, cmdVars, pathVars, cacheVars, bojVars>>

\* stopTimer after saveRecord: globalState.update(CURRENT_PROBLEM_KEY, undefined)
StopTimerSaved(e) ==
  /\ tops[e].pc = "await-records"
  /\ persistedCurrent' = <<>>
  /\ tops' = [tops EXCEPT ![e].pc = "await-clear"]
  /\ UNCHANGED <<currentRecord, solveRecords, timerInterval, live, showTimer, clock,
                 nextSession, unfinished, disposed>>
  /\ UNCHANGED <<harnessVars, normVars, cmdVars, pathVars, cacheVars, bojVars>>

\* stopTimer after the second await: take the record, forget it, return it;
\* `record.endTime` throws when currentRecord is null by now
StopTimerCleared(e) ==
  /\ tops[e].pc = "await-clear"
  /\ currentRecord' = <<>>
  /\ tops' = [tops EXCEPT ![e] = IdleOp]
  /\ UNCHANGED <<persistedCurrent, solveRecords, timerInterval, live, showTimer, clock,
                 nextSession, unfinished, disposed>>
  /\ UNCHANGED <<harnessVars, normVars, cmdVars, pathVars, cacheVars, bojVars>>

\* incrementAttempt: nothing follows its await
IncrementAttempt(e) ==
  /\ ~disposed
  /\ Returned(e)
  /\ tops' = tops
  /\ IF currentRecord # <<>>
     THEN /\ currentRecord[1].attempts < MaxAttempts
          /\ currentRecord' = << [currentRecord[1] EXCEPT !.attempts = @ + 1] >>
          /\ persistedCurrent' = currentRecord'
     ELSE UNCHANGED <<currentRecord, persistedCurrent>>
  /\ UNCHANGED <<solveRecords, timerInterval, live, showTimer, clock, nextSession,
                 unfinished, disposed>>
  /\ UNCHANGED <<harnessVars, normVars, cmdVars, pathVars, cacheVars, bojVars>>

PauseTimer ==
  /\ ~disposed
  /\ clearTimerInterval
  /\ UNCHANGED <<currentRecord, persistedCurrent, solveRecords, showTimer, clock, tops,
                 nextSession, unfinished, disposed>>
  /\ UNCHANGED <<harnessVars, normVars, cmdVars, pathVars, cacheVars, bojVars>>

ResumeTimer ==
  /\ ~disposed
  /\ Solving(currentRecord)
  /\ startTimerDisplay
  /\ UNCHANGED <<currentRecord, persistedCurrent, solveRecords, showTimer, clock, tops,
                 nextSession, unfinished, disposed>>
  /\ UNCHANGED <<harnessVars, normVars, cmdVars, pathVars, cacheVars, bojVars>>

TimerTick ==
  /\ clock < MaxClock
  /\ clock' = clock + 1
  /\ UNCHANGED <<currentRecord, persistedCurrent, solveRecords, timerInterval, live,
                 showTimer, tops, nextSession, unfinished, disposed>>
  /\ UNCHANGED <<harnessVars, normVars, cmdVars, pathVars, cacheVars, bojVars>>

\* dispose: clears the interval the field names, and leaves the field
Dispose ==
  /\ ~disposed
  /\ disposed' = TRUE
  /\ live' = IF timerInterval THEN live - 1 ELSE live
  /\ UNCHANGED <<currentRecord, persistedCurrent, solveRecords, timerInterval, showTimer,
                 clock, tops, nextSession, unfinished>>
  /\ UNCHANGED <<harnessVars, normVars, cmdVars, pathVars, cacheVars, bojVars>>

\* the extension is activated anew, at a moment when no operation is in
\* progress: the constructor and restoreCurrentProblem of a new TimerService
\* over the globalState the last session left
TimerRestart ==
  /\ Quiescent
  /\ \E setting \in BOOLEAN :
       /\ showTimer' = setting
       /\ currentRecord' = IF Solving(persistedCurrent) THEN persistedCurrent ELSE <<>>
       /\ timerInterval' = (Solving(persistedCurrent) /\ setting)
       /\ live' = IF Solving(persistedCurrent) /\ setting THEN 1 ELSE 0
  /\ tops' = [e \in EntryPoints |-> IdleOp]
  /\ disposed' = FALSE
  /\ UNCHANGED <<persistedCurrent, solveRecords, clock, nextSession, unfinished>>
  /\ UNCHANGED <<harnessVars, normVars, cmdVars, pathVars, cacheVars, bojVars>>

TimerInit == HarnessIdle /\ NormIdle /\ CmdIdle /\ PathIdle /\ CacheIdle /\ TimerIdle

TimerNext ==
  \/ \E e \in EntryPoints, p \in Problems : StartTimer(e, p)
  \/ \E e \in EntryPoints : StartTimerResume(e)
  \/ \E e \in EntryPoints, status \in Statuses : StopTimer(e, status)
  \/ \E e \in EntryPoints : StopTimerSaved(e)
  \/ \E e \in EntryPoints : StopTimerCleared(e)
  \/ \E e \in EntryPoints : IncrementAttempt(e)
  \/ TimerTick
  \/ TimerRestart

\* the records of the sessions, under calls from two entry points
TimerSpec == TimerInit /\ [][TimerNext]_vars

DisplayNext ==
  \/ \E p \in Problems : StartTimer("menu", p)
  \/ StartTimerResume("menu")
  \/ \E status \in Statuses : StopTimer("menu", status)
  \/ StopTimerSaved("menu")
  \/ StopTimerCleared("menu")
  \/ PauseTimer
  \/ ResumeTimer
  \/ Dispose
  \/ TimerRestart

\* the refresh interval, under calls that follow one another
DisplaySpec == TimerInit /\ [][DisplayNext]_vars

CompileSucceeded == compileResult # <<>> /\ compileResult[1].success
CompileFailed == compileResult # <<>> /\ ~compileResult[1].success

\* C1: after a successful compilation a result is passed exactly when its
\* normalized actual output equals its normalized expected output, the exit
\* code is 0 and the execution did not time out, whatever stderr holds; the
\* output the outcome carries normalizes to the same text as the raw stdout.
C1_PassedIff ==
  /\ CompileSucceeded =>
       \A k \in 1..Len(results) :
         results[k].passed <=>
           /\ normalizeOutput(results[k].actual) = normalizeOutput(testCases[k].output)
           /\ outcomes[k].exitCode = 0
           /\ ~outcomes[k].timeout
  /\ execResult # <<>> =>
       normalizeOutput(execResult[1].stdout) = normalizeOutput(stdout)

\* a passed case that wrote to stderr, then a timed-out case whose partial
\* output matches and which is not passed
C1_Witness ==
  /\ pc = "done"
  /\ CompileSucceeded
  /\ Len(results) = 2
  /\ results[1].passed /\ outcomes[1].stderr # <<>>
  /\ outcomes[2].timeout /\ ~results[2].passed
  /\ normalizeOutput(results[2].actual) = normalizeOutput(testCases[2].output)
  /\ results[2].actual # testCases[2].output

\* C2: the returned list has one element per test case, on either path, and
\* element i carries index i with the input and expected output of case i.
C2_OnePerCase ==
  /\ pc = "done" => Len(results) = N
  /\ \A k \in 1..Len(results) :
       /\ k <= N
       /\ results[k].testCaseIndex = k - 1
       /\ results[k].input = testCases[k].input
       /\ results[k].expected = testCases[k].output

C2_Witness ==
  /\ pc = "done"
  /\ CompileSucceeded
  /\ N = 2
  /\ testCases[1] # testCases[2]
  /\ results[2].testCaseIndex = 1

\* C3: when compilation fails the run goes from compiling straight to its
\* result, no test process is ever spawned, and every test case gets a result
\* that is not passed, has empty actual output and carries the one diagnostic.
C3_CompileFailure ==
  CompileFailed =>
    /\ pc \in {"compiling", "done"}
    /\ launched = <<>> /\ progress = <<>>
    /\ proc = "none" /\ timer = "none"
    /\ pc = "done" =>
         /\ Len(results) = N
         /\ \A k \in 1..N :
              /\ ~results[k].passed
              /\ results[k].actual = <<>>
              /\ results[k].error = compileResult[1].error
              /\ results[k].error # undefined

C3_Witness ==
  /\ CompileFailed
  /\ pc = "done"
  /\ N = 2
  /\ results[2].error = <<"e">>

\* C4: an outcome has timeout = true only when the deadline timer killed a
\* process that had not ended; in particular no outcome carries timeout = true
\* together with a numeric exit code.
C4_TimedOutHasNoExitCode ==
  execResult # <<>> =>
    (execResult[1].timeout => execResult[1].exitCode = null)

\* C5: every execute call eventually resolves with an outcome, also when the
\* program never ends on its own or has forked children.
C5_ExecuteResolves ==
  (proc \in {"running", "spawnfail"}) ~> (execResult # <<>>)

\* C6: cases are launched in index order, each once; a case is launched only
\* when the outcome of the one before has been received and no test process
\* is still there, and only after the compilation has completed.
C6_Sequential ==
  /\ [](/\ launched = [k \in 1..Len(launched) |-> k - 1]
        /\ Len(launched) = Len(outcomes) + (IF pc = "executing" THEN 1 ELSE 0)
        /\ launched # <<>> => CompileSucceeded /\ cproc \in {"none", "closed"})
  /\ [][launched' # launched =>
          /\ proc \in {"none", "closed"}
          /\ ~children
          /\ Len(launched') = Len(launched) + 1]_vars

\* the second case running, after the first has produced its outcome
C6_Witness ==
  /\ launched = <<0, 1>>
  /\ Len(outcomes) = 1
  /\ proc = "running"
  /\ cproc = "closed"

\* C7: after a successful compilation a failed case never ends the run: the
\* next case is launched as soon as a result is recorded, and the run ends
\* with every case launched and reported.
C7_NoShortCircuit ==
  (CompileSucceeded /\ pc \in {"executing", "done"}) =>
    /\ Len(launched) = (IF Len(results) + 1 < N THEN Len(results) + 1 ELSE N)
    /\ pc = "done" => Len(results) = N

\* a timed-out first case followed by a passed second case
C7_Witness ==
  /\ pc = "done"
  /\ CompileSucceeded
  /\ N = 2
  /\ outcomes[1].timeout /\ ~results[1].passed
  /\ results[2].passed

\* C8: for every test case execute writes the input to standard input and
\* closes it, so no program stays blocked waiting for end-of-file.
C8_StdinClosed ==
  proc \in {"running", "exited"} =>
    /\ stdinData = testCases[i + 1].input
    /\ stdinEnded
    /\ ~needsEOF

\* C9 as stated: the timeout is reported first, then a non-zero exit code,
\* and stderr only for a case that neither timed out nor exited non-zero.
C9_ExitCodeBeforeStderr ==
  CompileSucceeded =>
    \A k \in 1..Len(results) :
      LET r == outcomes[k] IN
      /\ r.timeout => results[k].error = TimeoutMsg
      /\ (~r.timeout /\ r.exitCode \notin {0, null}) =>
           results[k].error = RuntimeMsg(r.exitCode)
      /\ (r.stderr # <<>> /\ results[k].error = r.stderr) =>
           (~r.timeout /\ r.exitCode \in {0, null})

\* C9: the description is the timeout for a timed-out case; otherwise the
\* stderr text when there is any, whatever the exit code; otherwise the
\* runtime error when the exit code is not 0; otherwise there is none.
C9_StderrBeforeExitCode ==
  CompileSucceeded =>
    \A k \in 1..Len(results) :
      LET r == outcomes[k] IN
      results[k].error =
        IF r.timeout THEN TimeoutMsg
        ELSE IF r.stderr # <<>> THEN r.stderr
        ELSE IF r.exitCode # 0 THEN RuntimeMsg(r.exitCode)
        ELSE undefined

\* a case that exited with code 1 and wrote to stderr reports the stderr text
C9_Witness ==
  \E k \in 1..Len(results) :
    /\ CompileSucceeded
    /\ ~outcomes[k].timeout
    /\ outcomes[k].exitCode = 1
    /\ outcomes[k].stderr = <<"e">>
    /\ results[k].error = <<"e">>

\* C10 as stated: one call (k, N) per case, in order, the call for a case made
\* once its execution has finished.
C10_ProgressAfterCase ==
  /\ progress = [k \in 1..Len(progress) |-> <<k, N>>]
  /\ Len(progress) <= Len(outcomes)
  /\ (CompileSucceeded /\ pc = "done") => Len(progress) = N

\* C10: one call (k, N) per case, in increasing order; the call for a case is
\* made when that case is launched, after the case before it has finished, so
\* the call (N, N) is made when the last case starts.
C10_ProgressBeforeCase ==
  /\ progress = [k \in 1..Len(progress) |-> <<k, N>>]
  /\ Len(progress) = Len(launched)
  /\ Len(progress) = Len(outcomes) + (IF pc = "executing" THEN 1 ELSE 0)
  /\ (CompileSucceeded /\ pc = "done") => Len(progress) = N

\* the call (N, N) has been made and the last case is still running
C10_Witness ==
  /\ N = 2
  /\ progress = << <<1, 2>>, <<2, 2>> >>
  /\ pc = "executing"
  /\ proc = "running"
  /\ Len(outcomes) = 1

\* C11: when the test process cannot be launched, the next thing that happens
\* to that execution is that it resolves with stdout empty, stderr describing
\* the launch failure, no exit code and timeout = false, and its deadline
\* timer is cleared; the case is reported as not passed with that description,
\* which is not the timeout description.
C11_LaunchFailure ==
  /\ [][proc = "spawnfail" =>
          /\ execResult' = << [stdout |-> <<>>, stderr |-> LaunchMsg,
                               exitCode |-> null, timeout |-> FALSE] >>
          /\ timer' = "cleared"
          /\ proc' = "closed"]_vars
  /\ [](/\ proc = "spawnfail" => execResult = <<>> /\ timer = "armed"
        /\ timer = "cleared" => ~timeout
        /\ CompileSucceeded =>
             \A k \in 1..Len(results) :
               outcomes[k].stderr = LaunchMsg =>
                 /\ outcomes[k].exitCode = null
                 /\ ~outcomes[k].timeout
                 /\ ~results[k].passed
                 /\ results[k].error = LaunchMsg
                 /\ results[k].error # TimeoutMsg)

\* a run whose first case could not be launched and whose second case passed
C11_Witness ==
  /\ pc = "done"
  /\ CompileSucceeded
  /\ N = 2
  /\ outcomes[1].stderr = LaunchMsg
  /\ results[1].error = LaunchMsg
  /\ results[2].passed

C13_ArtifactRemoved ==
  (CompileSucceeded /\ HasCompileCommand(language)) =>
    /\ pc = "executing" => Produced(language) \subseteq disk
    /\ unlink # "none" => pc = "done" /\ Len(outcomes) = N
    /\ (pc = "done" /\ unlink # "failed") => disk \cap Produced(language) = {}

\* C15: the normalized text is the input with the trailing whitespace of each
\* line removed and the blank lines at its start and end dropped, every other
\* character kept, the indentation of the first remaining line included; the
\* text "  hello  \n  world  \n" gives "  hello\n  world".
C15_KeepsIndentation ==
  npc # "start" =>
    LET raw == split(text)
        lines == [k \in 1..Len(raw) |-> trimEnd(raw[k])]
        kept == {k \in 1..Len(lines) : lines[k] # <<>>}
        first == CHOOSE k \in kept : \A j \in kept : k <= j
        last == CHOOSE k \in kept : \A j \in kept : j <= k
    IN  /\ once = IF kept = {} THEN <<>> ELSE join(SubSeq(lines, first, last))
        /\ text = TestInput => once = TestExpected

\* C16: normalizing a normalized text changes nothing, so a verdict computed
\* with the normalized expected output in place of the expected output is the
\* same verdict, whatever the actual output is.
C16_Idempotent ==
  npc = "twice" =>
    /\ twice = once
    /\ \A actual \in Texts(MaxOut) :
         LET r == [stdout |-> actual, stderr |-> <<>>, exitCode |-> 0,
                   timeout |-> FALSE]
         IN  Passed([input |-> <<>>, output |-> once], r)
               <=> Passed([input |-> <<>>, output |-> text], r)

\* a text that normalization changed, normalized a second time
C16_Witness ==
  /\ npc = "twice"
  /\ text = <<" ", "a", " ", "\n">>
  /\ once = <<"a">>
  /\ twice = <<"a">>

\* a runTests call of invocation c is in flight
InFlight(c) == cmds[c].pc \in {"compiling", "running"}

\* C14: two invocations of the run-tests command for the same source file of
\* a compiled language never have their runTests calls in flight at the same
\* time, and while an invocation has cases to execute its compiled file is on
\* disk: no other invocation has removed it.
C14_Serialized ==
  /\ \A a, b \in Invocations :
       (a # b /\ InFlight(a) /\ InFlight(b) /\ HasCompileCommand(cmds[a].lang[1]))
         => cmds[a].file # cmds[b].file
  /\ \A c \in Invocations :
       (cmds[c].pc = "running" /\ HasCompileCommand(cmds[c].lang[1]))
         => cmds[c].file \in artifacts

\* invocation c ended at the language check: nothing was compiled or launched,
\* incrementAttempt was not called and no results were shown
HardStop(c) ==
  /\ cmds[c].pc = "stopped"
  /\ ~cmds[c].incremented
  /\ ~cmds[c].compiled
  /\ cmds[c].launches = 0
  /\ cmds[c].k = 0
  /\ ~cmds[c].shown

\* C19 as stated: the language found is the one whose registered extension
\* equals the extension of the file as written, every other extension is
\* unsupported, and an invocation on an unsupported file stops hard.
C19_ExactExtension ==
  /\ \A c \in Invocations :
       (cmds[c].pc # "idle" /\ cmds[c].file # NoFile) =>
         /\ \A l \in SupportedLanguage :
              cmds[c].lang = <<l>> <=> Extension(l) = extname(cmds[c].file)
         /\ cmds[c].lang = <<>> => HardStop(c)
  /\ attempts # <<>> =>
       attempts[1] = Cardinality({c \in Invocations : cmds[c].incremented})
  /\ artifacts \subseteq {cmds[c].file : c \in {x \in Invocations : cmds[x].compiled}}

\* C19: the language found is the one whose registered extension equals the
\* extension of the file in lower case ("a.PY" is Python; ".py" and "d.py/a"
\* have no extension), every other extension is unsupported, and an invocation
\* on an unsupported file stops hard: it compiles nothing, launches nothing,
\* leaves the attempts counter alone and shows no results.
C19_LowerCasedExtension ==
  /\ \A c \in Invocations :
       (cmds[c].pc # "idle" /\ cmds[c].file # NoFile) =>
         /\ \A l \in SupportedLanguage :
              cmds[c].lang = <<l>>
                <=> Extension(l) = toLowerCase(extname(cmds[c].file))
         /\ cmds[c].file = <<"a", ".", "P", "Y">> => cmds[c].lang = <<"py">>
         /\ cmds[c].file = <<"a", ".", "c", "p", "p">> => cmds[c].lang = <<"cpp">>
         /\ cmds[c].file \in {<<".", "p", "y">>, <<"d", ".", "p", "y", "/", "a">>,
                              <<"a", ".", "t", "x", "t">>} => cmds[c].lang = <<>>
         /\ cmds[c].lang = <<>> => HardStop(c)
  /\ attempts # <<>> =>
       attempts[1] = Cardinality({c \in Invocations : cmds[c].incremented})
  /\ artifacts \subseteq {cmds[c].file : c \in {x \in Invocations : cmds[x].compiled}}

\* one invocation stopped on a text file, the other ran the tests of "a.PY"
C19_Witness ==
  /\ cmds["first"].file = <<"a", ".", "t", "x", "t">>
  /\ cmds["first"].pc = "stopped"
  /\ cmds["second"].file = <<"a", ".", "P", "Y">>
  /\ cmds["second"].lang = <<"py">>
  /\ cmds["second"].pc = "finished"
  /\ attempts = <<1>>

\* C17: for a language with a compile command the result of compile is there
\* exactly when the compiler has closed or failed to start, and never changes
\* afterwards; it is a success carrying the output path exactly when the
\* compiler exited with code 0; after another exit it is a failure carrying
\* the captured stderr, or the message naming the exit code when stderr is
\* empty; when the compiler could not be started it is a failure carrying the
\* launch diagnostic, which no exit produces.
C17_CompileResult ==
  /\ [](HasCompileCommand(language) =>
          /\ compileResult # <<>> <=> cproc = "closed"
          /\ compileResult # <<>> =>
               LET cr == compileResult[1] IN
               /\ cr.success <=> ccode = <<0>>
               /\ cr.success => cr.outputPath /\ cr.error = undefined
               /\ ~cr.success => ~cr.outputPath
               /\ (ccode # <<>> /\ ccode # <<0>>) =>
                    cr.error = IF cstderr # <<>> THEN cstderr
                               ELSE <<"compile failed (exit code: ",
                                      CodeStr(ccode[1]), ")">>
               /\ ccode = <<>> <=> cr.error = CompilerLaunchMsg)
  /\ [][compileResult # <<>> => compileResult' = compileResult]_vars

\* a compiler that exited with code 1 and wrote nothing to stderr
C17_Witness ==
  /\ pc = "done"
  /\ ccode = <<1>>
  /\ cstderr = <<>>
  /\ CompileFailed
  /\ compileResult[1].error = CompileExitMsg(1)
  /\ N = 2

\* C18: for a language without a compile command no compiler process exists
\* at any time, the result of compile is there as soon as runTests is called
\* and is a success without output path, and no step of the run removes or
\* adds a file, a file lying at the output path included.
C18_Interpreted ==
  /\ [](~HasCompileCommand(language) =>
          /\ cproc = "none" /\ ccode = <<>> /\ cstderr = <<>>
          /\ unlink = "none"
          /\ pc # "idle" =>
               compileResult = << [success |-> TRUE, error |-> undefined,
                                   outputPath |-> FALSE] >>)
  /\ [][~HasCompileCommand(language) => disk' = disk]_vars

\* a finished JavaScript run with a file at the output path left in place
C18_Witness ==
  /\ language = "js"
  /\ pc = "done"
  /\ N = 2
  /\ results[1].passed
  /\ disk = {"output"}

RECURSIVE Components(_, _)
Components(p, cur) ==
  IF p = <<>> THEN (IF cur = <<>> THEN <<>> ELSE <<cur>>)
  ELSE IF Head(p) = "/"
       THEN (IF cur = <<>> THEN <<>> ELSE <<cur>>) \o Components(Tail(p), <<>>)
       ELSE Components(Tail(p), Append(cur, Head(p)))

\* the id the description of findProblemIdFromPath gives for a path
ExpectedId(p) ==
  LET c == Components(p, <<>>)
      file == IF Len(c) >= 1 THEN c[Len(c)] ELSE <<>>
      dir == IF Len(c) >= 2 THEN c[Len(c) - 1] ELSE <<>>
      Runs == { n \in 1..(Len(file) - 1) :
                  AllDigits(SubSeq(file, 1, n)) /\ file[n + 1] = "." }
  IN  IF AllDigits(dir) THEN <<dir>>
      ELSE IF Runs # {} THEN <<SubSeq(file, 1, CHOOSE n \in Runs : TRUE)>>
      ELSE <<>>

C25_ClearRemoves ==
  /\ [](lastGet # <<>> =>
          LET w == lastWrite[lastGet[1].key]
          IN  (w # <<>> /\ w[1].op = "clear") => lastGet[1].value = <<>>)
  /\ [][(\E d \in Keys : lastWrite'[d] # lastWrite[d] /\ lastWrite'[d][1].op = "clearing") =>
          \A k \in Keys :
             ~startsWith(k, clearing'[1]) =>
                memoryCache'[k] = memoryCache[k] /\ globalCache'[k] = globalCache[k]]_vars

\* C30: get returns a value only if memory or persisted storage holds an
\* entry of the key with that value whose age does not exceed its ttl; a get
\* that follows set(k, v, ttl) by no more than ttl returns v, and a get that
\* follows delete(k) returns undefined.
C30_NeverExpired ==
  /\ [][(lastGet' # <<>> /\ lastGet' # lastGet /\ lastGet'[1].value # <<>>) =>
          \E slot \in {memoryCache[lastGet'[1].key], globalCache[lastGet'[1].key]} :
             /\ slot # <<>>
             /\ now - slot[1].timestamp <= slot[1].ttl
             /\ lastGet'[1].value = <<slot[1].data>>]_vars
  /\ [](lastGet # <<>> =>
          LET w == lastWrite[lastGet[1].key]
          IN  /\ (w # <<>> /\ w[1].op = "set" /\ lastGet[1].at - w[1].at <= w[1].ttl) =>
                   lastGet[1].value = <<w[1].data>>
              /\ (w # <<>> /\ w[1].op = "delete") => lastGet[1].value = <<>>)

\* a get, in a new session, of an entry exactly as old as its ttl
C30_Witness ==
  /\ lastGet # <<>>
  /\ lastGet[1].key = problemKey("1")
  /\ lastGet[1].value = <<"v2">>
  /\ lastGet[1].at = defaultTTL
  /\ lastWrite[problemKey("1")] = << [op |-> "set", data |-> "v2", ttl |-> defaultTTL, at |-> 0] >>
  /\ lastWrite[tierKey("1")] # <<>>
  /\ lastWrite[tierKey("1")][1].op = "delete"

C24_ResumesSession ==
  Solving(currentRecord) =>
    unfinished[currentRecord[1].problemId] = <<currentRecord[1].session>>

\* C27: no session has more than one record in the persisted list, every
\* record of the list is finished with an endTime not before its startTime,
\* and while a stopTimer(status) is being completed the list holds a record
\* with that status; also when two stopTimer calls interleave.
C27_OneRecordPerSession ==
  /\ \A s \in 1..MaxSessions :
       Cardinality({k \in DOMAIN solveRecords : solveRecords[k].session = s}) <= 1
  /\ \A k \in DOMAIN solveRecords :
       /\ solveRecords[k].status \in Statuses
       /\ solveRecords[k].endTime # <<>>
       /\ solveRecords[k].endTime[1] >= solveRecords[k].startTime
  /\ \A e \in EntryPoints :
       tops[e].pc \in {"await-records", "await-clear"} =>
         \E k \in DOMAIN solveRecords : solveRecords[k].status = tops[e].arg

\* C28: when no operation is in progress, the persisted current-problem entry
\* and the record in memory are both absent, or are the same 'solving' record.
C28_CurrentAgrees ==
  Quiescent =>
    \/ currentRecord = <<>> /\ persistedCurrent = <<>>
    \/ Solving(currentRecord) /\ persistedCurrent = currentRecord

\* C29: never more than one refresh interval is live, none is after dispose,
\* and none is when no record is current and no operation is in progress (as
\* after a stopTimer).
C29_OneInterval ==
  /\ live <= 1
  /\ disposed => live = 0
  /\ (currentRecord = <<>> /\ Quiescent) => live = 0

\* C26: an invocation of the run-tests command has incremented the attempts
\* counter exactly when it got past the checks and the save (supported
\* language, at least one test case), and so before it compiles or launches
\* anything; the counter of the current record is the number of such
\* invocations and goes up by one at a time; an invocation that stopped early
\* has not incremented it, and with no problem being timed there is no
\* counter before and none after.
C26_OneAttemptPerRun ==
  /\ [](\A c \in Invocations :
          /\ cmds[c].incremented <=>
               cmds[c].pc \in {"incremented", "compiling", "running", "finished"}
          /\ (cmds[c].compiled \/ cmds[c].launches > 0 \/ cmds[c].shown) =>
               cmds[c].incremented
          /\ cmds[c].incremented => (cmds[c].lang # <<>> /\ cmds[c].n > 0)
          /\ cmds[c].pc = "stopped" =>
               (~cmds[c].incremented /\ (cmds[c].lang = <<>> \/ cmds[c].n = 0)))
  /\ [](attempts # <<>> =>
          attempts[1] = Cardinality({c \in Invocations : cmds[c].incremented}))
  /\ [][/\ attempts = <<>> => attempts' = <<>>
        /\ attempts # <<>> =>
             /\ attempts' # <<>>
             /\ attempts'[1] =
                  attempts[1] +
                    Cardinality({c \in Invocations :
                                   cmds'[c].incremented /\ ~cmds[c].incremented})
             /\ attempts'[1] <= attempts[1] + 1]_vars

\* two runs of a timed problem counted, the second while the first was
\* executing its cases
C26_Witness ==
  /\ attempts = <<2>>
  /\ cmds["first"].pc = "running"
  /\ cmds["first"].launches = 1
  /\ cmds["first"].n = 2
  /\ cmds["second"].pc = "incremented"
  /\ cmds["second"].launches = 0

====
